---------------------------- MODULE Spec2Model ----------------------------
(***************************************************************************)
(* ReTab (src/ReTab.py): a Burp extension that sends the selected requests *)
(* to Repeater under a generated, truncated and deduplicated tab name.     *)
(*                                                                         *)
(* Text is modelled as a sequence of one-character strings, so that        *)
(* slicing, searching and formatting are computed the way the code         *)
(* computes them.                                                          *)
(***************************************************************************)
EXTENDS Integers, Sequences, FiniteSets, TLC

VARIABLES
    counts,       \* self._counts: dict label -> count
    hist,         \* observed _dedupe calls, oldest first
    dropped,      \* labels whose counters the latest _dedupe call discarded
    opt_method,   \* self._opt_method
    opt_query,    \* self._opt_query
    opt_normid,   \* self._opt_normid
    opt_auth,     \* self._opt_auth
    opt_maxlen,   \* self._opt_maxlen
    ui_method,    \* self._ui_method: a checkbox, or "missing"
    ui_query,     \* self._ui_query
    ui_normid,    \* self._ui_normid
    ui_auth,      \* self._ui_auth
    ui_maxlen,    \* self._ui_maxlen: the text of the field, or None
    lastSync,     \* the field text the latest _sync_options read (Raised: no field)
    capName,      \* the label given to _cap
    capOut,       \* what _cap made of capName
    capAgain,     \* what _cap made of capOut
    reqParts,     \* how the request under observation was put together
    req,          \* the request given to _name_for
    nameOut,      \* what _name_for returned (Raised: it raised)
    shape,        \* the branch of the priority chain that produced nameOut
    pending,      \* _on_send: the selected messages not yet processed
    selected,     \* _on_send: the messages ctx.getSelectedMessages() gave
    repeater,     \* the host: the tabs sendToRepeater created, oldest first
    sendLog,      \* _on_send: what happened to each message processed
    escaped,      \* an exception left _on_send
    pc,           \* per caller of _dedupe: the statement it is about to run
    cname,        \* per caller: its argument `name`
    cn,           \* per caller: its local `n`
    cret,         \* per caller: the value returned
    counts0       \* self._counts when the concurrent callers started

dedupeVars == <<counts, hist, dropped>>
capVars    == <<capName, capOut, capAgain>>
optVars    == <<opt_method, opt_query, opt_normid, opt_auth, opt_maxlen>>
uiVars     == <<ui_method, ui_query, ui_normid, ui_auth, ui_maxlen>>
nameVars   == <<reqParts, req, nameOut, shape>>
sendVars   == <<pending, selected, repeater, sendLog, escaped>>
concVars   == <<pc, cname, cn, cret, counts0>>

vars == <<counts, hist, dropped,
          opt_method, opt_query, opt_normid, opt_auth, opt_maxlen,
          ui_method, ui_query, ui_normid, ui_auth, ui_maxlen, lastSync,
          capName, capOut, capAgain,
          reqParts, req, nameOut, shape,
          pending, selected, repeater, sendLog, escaped,
          pc, cname, cn, cret, counts0>>

\* A value that is no text: None, or a call that has not happened.  (Texts are
\* sequences of one-character strings, so neither equals a text.)
None == <<"None">>

\* The outcome of a call that raised
Raised == <<"Raised">>

-----------------------------------------------------------------------------
(* Bounds of the model *)

\* _dedupe calls explored in one behaviour
MaxCalls == 4

-----------------------------------------------------------------------------
(* Python text primitives *)

\* s[:k] for k >= 0
Take(s, k) == SubSeq(s, 1, IF k < Len(s) THEN k ELSE Len(s))

\* s[k:] for k >= 0
Drop(s, k) == SubSeq(s, k + 1, Len(s))

\* c * k
Rep(c, k) == [i \in 1..k |-> c]

\* sub occurs in s at 0-based offset i
OccursAt(s, sub, i) ==
    /\ i >= 0
    /\ i + Len(sub) <= Len(s)
    /\ SubSeq(s, i + 1, i + Len(sub)) = sub

\* s.find(sub): the lowest offset, or -1
Find(s, sub) ==
    LET S == {i \in 0..Len(s) : OccursAt(s, sub, i)}
    IN  IF S = {} THEN -1 ELSE CHOOSE i \in S : \A j \in S : i <= j

\* s.rfind(sub): the highest offset, or -1
RFind(s, sub) ==
    LET S == {i \in 0..Len(s) : OccursAt(s, sub, i)}
    IN  IF S = {} THEN -1 ELSE CHOOSE i \in S : \A j \in S : j <= i

DigitChar == <<"0", "1", "2", "3", "4", "5", "6", "7", "8", "9">>

\* Characters
LowerLetters == <<"a", "b", "c", "d", "e", "f", "g", "h", "i", "j", "k", "l", "m", "n", "o", "p", "q", "r", "s", "t", "u", "v", "w", "x", "y", "z">>
UpperLetters == <<"A", "B", "C", "D", "E", "F", "G", "H", "I", "J", "K", "L", "M", "N", "O", "P", "Q", "R", "S", "T", "U", "V", "W", "X", "Y", "Z">>

Range(f) == {f[i] : i \in DOMAIN f}

LowerSet == Range(LowerLetters)
UpperSet == Range(UpperLetters)
LetterSet == LowerSet \cup UpperSet
DigitSet == Range(DigitChar)

\* \s
SpaceSet == {" ", "\t", "\n", "\r"}

\* [a-zA-Z0-9_]
WordSet == LetterSet \cup DigitSet \cup {"_"}

\* [\w.-]
TagSet == WordSet \cup {".", "-"}

\* [a-fA-F0-9]
HexSet == DigitSet \cup {"a", "b", "c", "d", "e", "f", "A", "B", "C", "D", "E", "F"}

IsUpper(c) == c \in UpperSet
IsLower(c) == c \in LowerSet
IsDigit(c) == c \in DigitSet
IsSpace(c) == c \in SpaceSet

LowerChar(c) ==
    IF IsUpper(c) THEN LowerLetters[CHOOSE i \in 1..26 : UpperLetters[i] = c]
    ELSE c

UpperChar(c) ==
    IF IsLower(c) THEN UpperLetters[CHOOSE i \in 1..26 : LowerLetters[i] = c]
    ELSE c

\* s.lower(), s.upper()
Lower(s) == [i \in 1..Len(s) |-> LowerChar(s[i])]
Upper(s) == [i \in 1..Len(s) |-> UpperChar(s[i])]

\* sub in s
Contains(s, sub) == \E i \in 0..Len(s) : OccursAt(s, sub, i)

\* s.startswith(p), s.endswith(p)
StartsWith(s, p) == OccursAt(s, p, 0)
EndsWith(s, p) == OccursAt(s, p, Len(s) - Len(p))

\* s.find(sub, from): the lowest offset >= from, or -1
FindFrom(s, sub, from) ==
    LET S == {i \in from..Len(s) : OccursAt(s, sub, i)}
    IN  IF S = {} THEN -1 ELSE CHOOSE i \in S : \A j \in S : i <= j

\* s[-k:] for k > 0
LastChars(s, k) == IF Len(s) <= k THEN s ELSE Drop(s, Len(s) - k)

\* s.lstrip(), s.rstrip(), s.strip()
RECURSIVE LStrip(_)
LStrip(s) == IF s # <<>> /\ IsSpace(Head(s)) THEN LStrip(Tail(s)) ELSE s

RECURSIVE RStrip(_)
RStrip(s) ==
    IF s # <<>> /\ IsSpace(s[Len(s)])
    THEN RStrip(SubSeq(s, 1, Len(s) - 1)) ELSE s

Strip(s) == RStrip(LStrip(s))

\* s.split(sep) for a one-character sep: the pieces, in order
RECURSIVE Split(_, _)
Split(s, sep) ==
    LET i == Find(s, <<sep>>)
    IN  IF i < 0 THEN <<s>>
        ELSE <<Take(s, i)>> \o Split(Drop(s, i + 1), sep)

\* sep.join(parts)
RECURSIVE Join(_, _)
Join(parts, sep) ==
    IF parts = <<>> THEN <<>>
    ELSE IF Len(parts) = 1 THEN parts[1]
    ELSE parts[1] \o <<sep>> \o Join(Tail(parts), sep)

\* The number of characters of s from offset i on that are in the class
RECURSIVE Run(_, _, _)
Run(s, i, class) ==
    IF i < Len(s) /\ s[i + 1] \in class THEN 1 + Run(s, i + 1, class) ELSE 0

\* "%d" % n for n >= 0
RECURSIVE Str(_)
Str(n) == IF n < 10 THEN <<DigitChar[n + 1]>>
          ELSE Str(n \div 10) \o <<DigitChar[(n % 10) + 1]>>

-----------------------------------------------------------------------------
(* The dedupe cache *)

_CACHE_CAP == 5000

\* dict.get(key, default)
DictGet(d, key, default) == IF key \in DOMAIN d THEN d[key] ELSE default

\* d[key] = val
DictSet(d, key, val) ==
    IF key \in DOMAIN d THEN [d EXCEPT ![key] = val] ELSE (key :> val) @@ d

\* len(d)
DictLen(d) == Cardinality(DOMAIN d)

\* {} and d.clear()
EmptyDict == [k \in {} |-> 0]

\* n = self._counts.get(name, 0) + 1
DedupeCount(d, name) == DictGet(d, name, 0) + 1

\* self._counts[name] = n
DedupeInsert(d, name) == DictSet(d, name, DedupeCount(d, name))

\* a faulty variant of the test: >= for >
DedupeOverflows_AtCap(d, name) == DictLen(DedupeInsert(d, name)) >= _CACHE_CAP

\* the branch `if len(self._counts) > _CACHE_CAP` is taken
DedupeOverflows(d, name) == DictLen(DedupeInsert(d, name)) > _CACHE_CAP

\* a faulty variant of the store: the cache is never cleared
DedupeStore_NoClear(d, name) == DedupeInsert(d, name)

\* self._counts after the call
DedupeStore(d, name) ==
    IF DedupeOverflows(d, name)
    THEN DictSet(EmptyDict, name, DedupeCount(d, name))
    ELSE DedupeInsert(d, name)

\* a faulty variant of the format: the first use is suffixed too
DedupeFormat_AlwaysSuffix(name, n) ==
    IF n >= 1 THEN name \o <<" ", "(">> \o Str(n) \o <<")">> ELSE name

\* "%s (%d)" % (name, n) if n > 1 else name
DedupeFormat(name, n) ==
    IF n > 1 THEN name \o <<" ", "(">> \o Str(n) \o <<")">> ELSE name

-----------------------------------------------------------------------------
(* Labels passed to _dedupe *)

La  == <<"a">>
La2 == <<"a", " ", "(", "2", ")">>
Lb  == <<"b">>

\* distinct labels that fill the cache
Filler(i) == <<"f">> \o Str(i)

Labels == {La, La2, Lb, Filler(1), Filler(_CACHE_CAP + 1)}

\* A cache filled by earlier sends of i distinct requests
Prefilled(i) == [l \in {Filler(j) : j \in 1..i} |-> 1]

-----------------------------------------------------------------------------
(* _dedupe as one step *)

_dedupe(name) ==
    LET n      == DedupeCount(counts, name)
        stored == DedupeStore(counts, name)
        over   == DedupeOverflows(counts, name)
    IN  /\ Len(hist) < MaxCalls
        /\ counts' = stored
        /\ dropped' = IF over THEN DOMAIN counts ELSE {}
        /\ hist' = Append(hist, [name    |-> name,
                                 ret     |-> DedupeFormat(name, n),
                                 cleared |-> over,
                                 before  |-> DictLen(counts),
                                 wasIn   |-> name \in DOMAIN counts,
                                 forgot  |-> name \in dropped,
                                 after   |-> DictLen(stored)])

\* registerExtenderCallbacks: self._counts = {}
DedupeFresh ==
    /\ counts = EmptyDict
    /\ hist = <<>>
    /\ dropped = {}

\* registerExtenderCallbacks: the naming options
FlagsFresh ==
    /\ opt_method = TRUE
    /\ opt_query = FALSE
    /\ opt_normid = TRUE
    /\ opt_auth = TRUE

\* _init_ui has not run yet: no widget exists
UiFresh ==
    /\ ui_method = "missing"
    /\ ui_query = "missing"
    /\ ui_normid = "missing"
    /\ ui_auth = "missing"
    /\ ui_maxlen = None
    /\ lastSync = None

\* registerExtenderCallbacks: the option defaults
OptFresh == FlagsFresh /\ opt_maxlen = 60 /\ UiFresh

\* no _cap call under observation
CapIdle ==
    /\ capName = None
    /\ capOut = None
    /\ capAgain = None

\* no _name_for call under observation
NameIdle ==
    /\ reqParts = None
    /\ req = None
    /\ nameOut = None
    /\ shape = "none"

\* no _on_send has run
SendIdle ==
    /\ pending = <<>>
    /\ selected = <<>>
    /\ repeater = <<>>
    /\ sendLog = <<>>
    /\ escaped = FALSE

\* no concurrent callers
ConcIdle ==
    /\ pc = <<>>
    /\ cname = <<>>
    /\ cn = <<>>
    /\ cret = <<>>
    /\ counts0 = EmptyDict

Init == DedupeFresh /\ OptFresh /\ CapIdle /\ NameIdle /\ SendIdle /\ ConcIdle

Next ==
    /\ \E name \in Labels : _dedupe(name)
    /\ UNCHANGED <<optVars, uiVars, lastSync, capVars, nameVars, sendVars, concVars>>

Spec == Init /\ [][Next]_vars

\* The cache after 0, 4999 or 5000 distinct labels were sent
InitNearCap ==
    /\ \E i \in {0, _CACHE_CAP - 1, _CACHE_CAP} : counts = Prefilled(i)
    /\ hist = <<>>
    /\ dropped = {}
    /\ OptFresh /\ CapIdle /\ NameIdle /\ SendIdle /\ ConcIdle

SpecNearCap == InitNearCap /\ [][Next]_vars

-----------------------------------------------------------------------------
(* Properties of _dedupe over the observed calls *)

Calls == 1..Len(hist)

\* No call from the j-th to the i-th cleared the cache
NoResetIn(j, i) == \A m \in j..i : ~hist[m].cleared

\* The latest call up to i that found the label of call i absent (0: none)
WindowStart(i) ==
    LET S == {j \in 1..i : hist[j].name = hist[i].name /\ ~hist[j].wasIn}
    IN  IF S = {} THEN 0 ELSE CHOOSE j \in S : \A m \in S : m <= j

\* Calls for label L from the j-th to the i-th
CallsFor(L, j, i) == Cardinality({m \in j..i : hist[m].name = L})

\* L for the first call, L (k) for the k-th
Suffixed(L, k) ==
    IF k = 1 THEN L ELSE L \o <<" ", "(">> \o Str(k) \o <<")">>

\* C1: from a cache without label L, and while no call clears the cache,
\* the k-th call _dedupe(L) returns L for k = 1 and L (k) for k > 1,
\* whatever calls for other labels come in between.
C1_DedupeMonotonic ==
    \A i \in Calls :
        LET j == WindowStart(i)
        IN  (j > 0 /\ NoResetIn(j, i))
                => hist[i].ret = Suffixed(hist[i].name,
                                          CallsFor(hist[i].name, j, i))

\* a, then another label, then a, a: the third call for a returns "a (3)"
C1_Witness ==
    /\ Len(hist) = 4
    /\ NoResetIn(1, 4)
    /\ hist[1].name = La /\ ~hist[1].wasIn
    /\ hist[2].name # La
    /\ hist[4].ret = <<"a", " ", "(", "3", ")">>

\* C2: after every _dedupe call the cache holds at most _CACHE_CAP labels
\* and every stored count is a positive integer.
C2_CacheBound ==
    /\ DictLen(counts) <= _CACHE_CAP
    /\ \A k \in DOMAIN counts : counts[k] \in Nat \ {0}

\* the 5001st distinct label has just been inserted
C2_Witness ==
    /\ hist # <<>>
    /\ hist[Len(hist)].before = _CACHE_CAP
    /\ ~hist[Len(hist)].wasIn
    /\ DictLen(counts) = 1

\* C3: a call clears the cache exactly when the cache holds _CACHE_CAP labels
\* and the given label is not one of them; such a call leaves exactly the
\* given label with count 1 and returns it without suffix; the next call for
\* a label whose counter was discarded returns that label without suffix;
\* and a call for a label already in the cache leaves the set of labels as
\* it was, even when the cache is full.
C3_WholesaleReset ==
    /\ \A i \in Calls :
          /\ hist[i].cleared <=> (hist[i].before = _CACHE_CAP /\ ~hist[i].wasIn)
          /\ hist[i].cleared => (hist[i].after = 1 /\ hist[i].ret = hist[i].name)
          /\ hist[i].forgot => hist[i].ret = hist[i].name
          /\ hist[i].wasIn => hist[i].after = hist[i].before
    /\ (hist # <<>> /\ hist[Len(hist)].cleared)
          => counts = (hist[Len(hist)].name :> 1)

\* a label that had reached "(2)" is returned bare right after the reset
C3_Witness ==
    \E i \in Calls : \E j \in Calls :
        /\ j < i - 1
        /\ hist[i - 1].cleared
        /\ hist[i].forgot
        /\ hist[j].name = hist[i].name
        /\ hist[j].ret # hist[j].name
        /\ hist[i].ret = hist[i].name

\* C4: while no call clears the cache, no two _dedupe calls return the same
\* final label, whatever the input labels are.
C4_ReturnsDistinct ==
    \A i \in Calls : \A j \in Calls :
        (i < j /\ NoResetIn(i, j)) => hist[i].ret # hist[j].ret

-----------------------------------------------------------------------------
(* _dedupe called from several threads, one statement at a time *)

Callers == {1, 2}

ConcLabels == {La, Lb, Filler(_CACHE_CAP + 1)}

InitConc ==
    /\ \E i \in {0, _CACHE_CAP - 1, _CACHE_CAP} : counts = Prefilled(i)
    /\ counts0 = counts
    /\ hist = <<>>
    /\ dropped = {}
    /\ OptFresh /\ CapIdle /\ NameIdle /\ SendIdle
    /\ pc = [c \in Callers |-> "idle"]
    /\ cname = [c \in Callers |-> None]
    /\ cn = [c \in Callers |-> 0]
    /\ cret = [c \in Callers |-> None]

ConcFrame == UNCHANGED <<hist, dropped, counts0, optVars, uiVars, lastSync,
                         capVars, nameVars, sendVars>>

\* a thread enters _dedupe(name)
Call(c, name) ==
    /\ pc[c] = "idle"
    /\ pc' = [pc EXCEPT ![c] = "lookup"]
    /\ cname' = [cname EXCEPT ![c] = name]
    /\ UNCHANGED <<counts, cn, cret>>
    /\ ConcFrame

\* n = self._counts.get(name, 0) + 1
Lookup(c) ==
    /\ pc[c] = "lookup"
    /\ cn' = [cn EXCEPT ![c] = DedupeCount(counts, cname[c])]
    /\ pc' = [pc EXCEPT ![c] = "store"]
    /\ UNCHANGED <<counts, cname, cret>>
    /\ ConcFrame

\* self._counts[name] = n
Store(c) ==
    /\ pc[c] = "store"
    /\ counts' = DictSet(counts, cname[c], cn[c])
    /\ pc' = [pc EXCEPT ![c] = "check"]
    /\ UNCHANGED <<cname, cn, cret>>
    /\ ConcFrame

\* if len(self._counts) > _CACHE_CAP:
CheckCap(c) ==
    /\ pc[c] = "check"
    /\ pc' = [pc EXCEPT ![c] = IF DictLen(counts) > _CACHE_CAP THEN "clear"
                                ELSE "return"]
    /\ UNCHANGED <<counts, cname, cn, cret>>
    /\ ConcFrame

\* self._counts.clear()
Clear(c) ==
    /\ pc[c] = "clear"
    /\ counts' = EmptyDict
    /\ pc' = [pc EXCEPT ![c] = "restore"]
    /\ UNCHANGED <<cname, cn, cret>>
    /\ ConcFrame

\* self._counts[name] = n, after the clear
ReStore(c) ==
    /\ pc[c] = "restore"
    /\ counts' = DictSet(counts, cname[c], cn[c])
    /\ pc' = [pc EXCEPT ![c] = "return"]
    /\ UNCHANGED <<cname, cn, cret>>
    /\ ConcFrame

\* return "%s (%d)" % (name, n) if n > 1 else name
Return(c) ==
    /\ pc[c] = "return"
    /\ cret' = [cret EXCEPT ![c] = DedupeFormat(cname[c], cn[c])]
    /\ pc' = [pc EXCEPT ![c] = "done"]
    /\ UNCHANGED <<counts, cname, cn>>
    /\ ConcFrame

NextConc ==
    \/ \E c \in Callers, name \in ConcLabels : Call(c, name)
    \/ \E c \in Callers : Lookup(c)
    \/ \E c \in Callers : Store(c)
    \/ \E c \in Callers : CheckCap(c)
    \/ \E c \in Callers : Clear(c)
    \/ \E c \in Callers : ReStore(c)
    \/ \E c \in Callers : Return(c)

SpecConc == InitConc /\ [][NextConc]_vars

\* What the two calls leave and return when caller first runs _dedupe to its
\* end before caller second starts
Sequential(first, second) ==
    LET d1 == DedupeStore(counts0, cname[first])
    IN  [counts |-> DedupeStore(d1, cname[second]),
         ret    |-> (first :> DedupeFormat(cname[first],
                                           DedupeCount(counts0, cname[first])))
                    @@ (second :> DedupeFormat(cname[second],
                                               DedupeCount(d1, cname[second])))]

AllReturned == pc # <<>> /\ \A c \in Callers : pc[c] = "done"

\* C9: when two callers run _dedupe concurrently with their statements
\* interleaved in any order, what they leave in the cache and what they
\* return is what one of the two sequential orders gives; two calls for the
\* same label never get the same count; and the cache holds at most 5000
\* labels when the calls have returned.
C9_ConcurrentDedupeSafe ==
    AllReturned =>
        /\ \E first \in Callers, second \in Callers :
              /\ first # second
              /\ counts = Sequential(first, second).counts
              /\ \A c \in Callers : cret[c] = Sequential(first, second).ret[c]
        /\ \A c \in Callers, d \in Callers :
              (c # d /\ cname[c] = cname[d]) => cn[c] # cn[d]
        /\ DictLen(counts) <= _CACHE_CAP

-----------------------------------------------------------------------------
(* The truncation step *)

\* "\xe2\x80\xa6": the three bytes of a UTF-8 ellipsis, as a byte string
Ellipsis == <<"\\xe2", "\\x80", "\\xa6">>

\* name[:limit - 1] + "\xe2\x80\xa6".  Appending the byte string to a byte
\* string yields the three bytes; appending it to a unicode label makes the
\* interpreter decode the literal as ASCII, which raises UnicodeDecodeError.
\* The type of the label is not tracked, so both outcomes are possible.
PlainCut(name, limit) == {Take(name, limit - 1) \o Ellipsis, Raised}

\* The outcomes of self._cap(name)
_cap(name) ==
    LET limit == opt_maxlen
    IN  IF Len(name) <= limit THEN {name}
        ELSE
          LET pivot    == Find(name, <<"-", "/">>)
              head     == IF pivot >= 0 THEN Take(name, pivot + 1) ELSE <<>>
              tail_src == IF pivot >= 0 THEN Drop(name, pivot + 1) ELSE name
              slash    == RFind(tail_src, <<"/">>)
              tail     == Drop(tail_src, slash)
              budget   == limit - Len(head) - 4 - Len(tail)
          IN  IF slash > 0 /\ slash < Len(tail_src) - 1 /\ budget > 4
              THEN {head \o Take(tail_src, budget) \o <<"/", ".", ".", ".">> \o tail}
              ELSE PlainCut(name, limit)

\* the values _sync_options lets through
MaxLens == 10..200

\* Lengths of the path segments of the labels given to _cap
SegLens == {1, 4, 9, 30, 100, 210}

\* Labels given to _cap: an optional prefix, two path segments and an optional
\* trailing slash; and the two literal labels of the synthesizers
CapNames ==
    {p \o <<"/">> \o Rep("a", k1) \o <<"/">> \o Rep("b", k2) \o t :
        p \in {<<>>, <<"G", "-">>, <<"W", "S", "-">>},
        k1 \in SegLens, k2 \in SegLens, t \in {<<>>, <<"/">>}}
    \cup {<<"S", "O", "A", "P", "-", "r", "e", "q", "u", "e", "s", "t">>,
          <<"g", "r", "a", "p", "h", "q", "l">>}

InitCap ==
    /\ DedupeFresh /\ NameIdle /\ SendIdle /\ ConcIdle
    /\ FlagsFresh /\ UiFresh
    /\ opt_maxlen \in MaxLens
    /\ capName \in CapNames
    /\ capOut = None
    /\ capAgain = None

\* name = self._cap(...)
CapOnce ==
    /\ capOut = None
    /\ \E out \in _cap(capName) : capOut' = out
    /\ UNCHANGED <<dedupeVars, optVars, uiVars, lastSync, capName, capAgain,
                   nameVars, sendVars, concVars>>

\* self._cap(name) on a label _cap returned
CapTwice ==
    /\ capOut \notin {None, Raised}
    /\ capAgain = None
    /\ \E out \in _cap(capOut) : capAgain' = out
    /\ UNCHANGED <<dedupeVars, optVars, uiVars, lastSync, capName, capOut,
                   nameVars, sendVars, concVars>>

NextCap == CapOnce \/ CapTwice

SpecCap == InitCap /\ [][NextCap]_vars

\* C6: for every maximum M in 10..200 the label _cap returns is at most M
\* characters long, on the mid-truncation path and on the plain-cut path, and
\* a label of at most M characters is returned unchanged.
C6_CapEnforcesMax ==
    (capOut \notin {None, Raised})
        => /\ Len(capOut) <= opt_maxlen
           /\ Len(capName) <= opt_maxlen => capOut = capName

\* C7: _cap applied to a label it returned, at the same maximum, returns that
\* label unchanged.
C7_CapIdempotent ==
    (capAgain \notin {None, Raised}) => capAgain = capOut

-----------------------------------------------------------------------------
(* Library calls the name generation relies on *)

\* The characters with codes 32..126, in order (code 96 is shown as "?")
Ascii ==
    <<" ", "!", "\"", "#", "$", "%", "&", "'", "(", ")", "*", "+", ",", "-", ".", "/",
     "0", "1", "2", "3", "4", "5", "6", "7", "8", "9", ":", ";", "<", "=", ">", "?", "@",
     "A", "B", "C", "D", "E", "F", "G", "H", "I", "J", "K", "L", "M", "N", "O", "P", "Q", "R", "S", "T", "U", "V", "W", "X", "Y", "Z", "[", "\\", "]", "^", "_", "?",
      "a", "b", "c", "d", "e", "f", "g", "h", "i", "j", "k", "l", "m", "n", "o", "p", "q", "r", "s", "t", "u", "v", "w", "x", "y", "z", "{", "|", "}", "~">>

\* chr(code); a code outside 32..126 is shown as "?"
Chr(code) == IF code >= 32 /\ code <= 126 THEN Ascii[code - 31] ELSE "?"

DigitVal(c) == (CHOOSE i \in 1..10 : DigitChar[i] = c) - 1

HexVal(c) ==
    IF c \in DigitSet THEN DigitVal(c)
    ELSE 9 + (CHOOSE i \in 1..6 : LowerLetters[i] = LowerChar(c))

\* java.net.URLDecoder.decode(raw, "UTF-8"): "+" is a space, %XX the
\* character with that code; a "%" without two hex digits raises.
RECURSIVE URLDecode(_)
URLDecode(raw) ==
    IF raw = <<>> THEN <<>>
    ELSE IF Head(raw) = "%"
    THEN IF Len(raw) >= 3 /\ raw[2] \in HexSet /\ raw[3] \in HexSet
         THEN LET rest == URLDecode(Drop(raw, 3))
              IN  IF rest = Raised THEN Raised
                  ELSE <<Chr(16 * HexVal(raw[2]) + HexVal(raw[3]))>> \o rest
         ELSE Raised
    ELSE LET rest == URLDecode(Tail(raw))
         IN  IF rest = Raised THEN Raised
             ELSE <<IF Head(raw) = "+" THEN " " ELSE Head(raw)>> \o rest

B64Alphabet ==
    UpperLetters \o LowerLetters \o DigitChar \o <<"+", "/">>

B64Val(c) == (CHOOSE i \in 1..64 : B64Alphabet[i] = c) - 1

\* The bytes of full four-character units, as characters
RECURSIVE B64Units(_)
B64Units(s) ==
    IF Len(s) < 4 THEN <<>>
    ELSE LET v == 262144 * B64Val(s[1]) + 4096 * B64Val(s[2])
                  + 64 * B64Val(s[3]) + B64Val(s[4])
         IN  <<Chr(v \div 65536), Chr((v \div 256) % 256), Chr(v % 256)>>
             \o B64Units(Drop(s, 4))

\* The bytes of a final unit of two or three characters
B64Last(s) ==
    IF Len(s) = 2 THEN <<Chr((64 * B64Val(s[1]) + B64Val(s[2])) \div 16)>>
    ELSE IF Len(s) = 3
    THEN LET v == 4096 * B64Val(s[1]) + 64 * B64Val(s[2]) + B64Val(s[3])
         IN  <<Chr(v \div 1024), Chr((v \div 4) % 256)>>
    ELSE <<>>

\* text without its trailing "=" characters
RECURSIVE RStripPad(_)
RStripPad(s) ==
    IF s # <<>> /\ s[Len(s)] = "=" THEN RStripPad(SubSeq(s, 1, Len(s) - 1)) ELSE s

\* java.util.Base64.getDecoder().decode(text), as text: raises on a character
\* outside the alphabet, on a final unit of one character and on padding that
\* does not complete a unit.
B64Decode(text) ==
    LET pad  == Len(text) - Len(RStripPad(text))
        data == RStripPad(text)
        full == Len(data) - (Len(data) % 4)
    IN  IF \/ \E i \in 1..Len(data) : data[i] \notin Range(B64Alphabet)
           \/ Len(data) % 4 = 1
           \/ pad > 2
           \/ (pad > 0 /\ (Len(data) + pad) % 4 # 0)
        THEN Raised
        ELSE B64Units(Take(data, full)) \o B64Last(Drop(data, full))

-----------------------------------------------------------------------------
(* Name generation: module-level functions and patterns *)

_BODY_MAX == 65536

\* `if x:` for a text or None
Truthy(x) == x # None /\ x # <<>>

\* _extract_json_str(text, key)
_extract_json_str(text, key) ==
    LET tag == <<"\"">> \o key \o <<"\"">>
        i   == Find(text, tag)
    IN  IF i < 0 THEN None
        ELSE
          LET rest == LStrip(Drop(text, i + Len(tag)))
          IN  IF rest = <<>> \/ rest[1] # ":" THEN None
              ELSE
                LET rest2 == LStrip(Tail(rest))
                IN  IF rest2 = <<>> THEN None
                    ELSE IF rest2[1] = "\""
                    THEN LET end == FindFrom(rest2, <<"\"">>, 1)
                         IN  IF end < 0 THEN None
                             ELSE IF SubSeq(rest2, 2, end) # <<"n", "u", "l", "l">>
                             THEN SubSeq(rest2, 2, end)
                             ELSE None
                    ELSE None

\* The first occurrence of key= at the start of qs or right after "&", from
\* offset `from` on (-1: none): the loop of _qs_value
RECURSIVE QsKeyAt(_, _, _)
QsKeyAt(qs, search, from) ==
    LET i == FindFrom(qs, search, from)
    IN  IF i < 0 THEN -1
        ELSE IF i = 0 \/ qs[i] = "&" THEN i
        ELSE QsKeyAt(qs, search, i + 1)

\* _qs_value(qs, key); falling off the loop returns None
_qs_value(qs, key) ==
    LET search == key \o <<"=">>
        i      == QsKeyAt(qs, search, 0)
    IN  IF i < 0 THEN None
        ELSE
          LET start == i + Len(search)
              end   == FindFrom(qs, <<"&">>, start)
              raw   == IF end < 0 THEN Drop(qs, start)
                       ELSE SubSeq(qs, start + 1, end)
          IN  IF URLDecode(raw) = Raised THEN raw ELSE URLDecode(raw)

\* _RE_GQL_OP = (?:query|mutation|subscription)\s+([a-zA-Z0-9_]+)
GqlKeywords == {<<"q", "u", "e", "r", "y">>,
                <<"m", "u", "t", "a", "t", "i", "o", "n">>,
                <<"s", "u", "b", "s", "c", "r", "i", "p", "t", "i", "o", "n">>}

\* the pattern matches at offset i
GqlOpAt(s, i) ==
    \E k \in GqlKeywords :
        /\ OccursAt(s, k, i)
        /\ Run(s, i + Len(k), SpaceSet) >= 1
        /\ Run(s, i + Len(k) + Run(s, i + Len(k), SpaceSet), WordSet) >= 1

\* group(1) of the match at offset i
GqlOpGroup(s, i) ==
    LET k == CHOOSE k \in GqlKeywords : OccursAt(s, k, i)
        j == i + Len(k) + Run(s, i + Len(k), SpaceSet)
    IN  SubSeq(s, j + 1, j + Run(s, j, WordSet))

\* m = _RE_GQL_OP.search(s); m.group(1) if m, else None
GqlOpSearch(s) ==
    LET S == {i \in 0..Len(s) : GqlOpAt(s, i)}
    IN  IF S = {} THEN None
        ELSE GqlOpGroup(s, CHOOSE i \in S : \A j \in S : i <= j)

\* _RE_HASH = :\s*"([a-fA-F0-9]+)" matches at offset i of s
HashAt(s, i) ==
    LET q == i + 1 + Run(s, i + 1, SpaceSet)
        h == Run(s, q + 1, HexSet)
    IN  /\ i < Len(s) /\ s[i + 1] = ":"
        /\ q < Len(s) /\ s[q + 1] = "\""
        /\ h >= 1
        /\ q + 1 + h < Len(s) /\ s[q + h + 2] = "\""

HashGroup(s, i) ==
    LET q == i + 1 + Run(s, i + 1, SpaceSet)
    IN  SubSeq(s, q + 2, q + 1 + Run(s, q + 1, HexSet))

\* _RE_HASH.search(s, pos, endpos): group(1), or None
HashSearch(s, pos, endpos) ==
    LET w == Take(s, endpos)
        S == {i \in pos..Len(w) : HashAt(w, i)}
    IN  IF S = {} THEN None
        ELSE HashGroup(w, CHOOSE i \in S : \A j \in S : i <= j)

\* [a-zA-Z][\w.-]* at offset j: the length matched (0: no match)
XmlNameLen(s, j) ==
    IF j < Len(s) /\ s[j + 1] \in LetterSet THEN 1 + Run(s, j + 1, TagSet) ELSE 0

\* _RE_XML = <([a-zA-Z][\w.-]*:)?([a-zA-Z][\w.-]*) matches at offset i
XmlAt(s, i) == i < Len(s) /\ s[i + 1] = "<" /\ XmlNameLen(s, i + 1) >= 1

\* the prefix group takes part in the match at offset i
XmlPrefixed(s, i) ==
    LET p == XmlNameLen(s, i + 1)
    IN  /\ i + 1 + p < Len(s) /\ s[i + p + 2] = ":"
        /\ XmlNameLen(s, i + p + 2) >= 1

\* where group(2) starts
XmlTagStart(s, i) ==
    IF XmlPrefixed(s, i) THEN i + XmlNameLen(s, i + 1) + 2 ELSE i + 1

\* m.end()
XmlEnd(s, i) == XmlTagStart(s, i) + XmlNameLen(s, XmlTagStart(s, i))

\* m.group(2)
XmlTag(s, i) == SubSeq(s, XmlTagStart(s, i) + 1, XmlEnd(s, i))

\* _RE_XML.search(s, pos): the offset of the match, or -1
XmlSearch(s, pos) ==
    LET S == {i \in pos..Len(s) : XmlAt(s, i)}
    IN  IF S = {} THEN -1 ELSE CHOOSE i \in S : \A j \in S : i <= j

_SOAP_SKIP == {<<"e", "n", "v", "e", "l", "o", "p", "e">>,
               <<"h", "e", "a", "d", "e", "r">>, <<"b", "o", "d", "y">>,
               <<"x", "m", "l">>}

-----------------------------------------------------------------------------
(* Name generation: metadata extraction *)

\* A request as the host presents it:
\*   info  "full": analyzeRequest(svc, req) worked; "bare": only
\*         analyzeRequest(req) did, whose getUrl() raises; "raise": neither
\*   hdrs  info.getHeaders(): the start line and the header lines
\*   url   [path, query] of info.getUrl(); query may be None
\*   chunk req[info.getBodyOffset():] as text

\* _method(hdrs)
_method(hdrs) ==
    IF hdrs # <<>> THEN Split(hdrs[1], " ")[1] ELSE <<"G", "E", "T">>

\* _path_query_from_line(hdrs): <<path, query>>
_path_query_from_line(hdrs) ==
    IF hdrs # <<>> /\ Len(Split(hdrs[1], " ")) >= 2
    THEN LET raw == Split(hdrs[1], " ")[2]
             sep == Find(raw, <<"?">>)
         IN  IF sep >= 0 THEN <<Take(raw, sep), Drop(raw, sep + 1)>>
             ELSE <<raw, None>>
    ELSE <<<<"/">>, None>>

\* _path_query(info, hdrs): <<path, query>>
_path_query(r) ==
    IF r.info = "full"
    THEN <<IF r.url.path # <<>> THEN r.url.path ELSE <<"/">>, r.url.query>>
    ELSE _path_query_from_line(r.hdrs)

\* the header lines that carry a name: sep > 0
HeaderLines(hdrs) == {i \in 2..Len(hdrs) : Find(hdrs[i], <<":">>) > 0}

HeaderKey(line) == Lower(Strip(Take(line, Find(line, <<":">>))))

HeaderValue(line) == Strip(Drop(line, Find(line, <<":">>) + 1))

\* _header_map(hdrs): lower-cased name -> value; a later line replaces an
\* earlier one of the same name
_header_map(hdrs) ==
    [k \in {HeaderKey(hdrs[i]) : i \in HeaderLines(hdrs)} |->
        HeaderValue(hdrs[CHOOSE i \in HeaderLines(hdrs) :
                            /\ HeaderKey(hdrs[i]) = k
                            /\ \A j \in HeaderLines(hdrs) :
                                 HeaderKey(hdrs[j]) = k => j <= i])]

\* _body(req, offset)
_body(chunk) ==
    IF 0 < Len(chunk) /\ Len(chunk) <= _BODY_MAX THEN chunk ELSE <<>>

\* _trim_path(p)
_trim_path(p) ==
    IF ~Truthy(p) THEN <<"/">>
    ELSE IF Len(p) > 1 /\ EndsWith(p, <<"/">>) THEN Take(p, Len(p) - 1)
    ELSE p

-----------------------------------------------------------------------------
(* Name generation: the synthesizers *)

\* _looks_graphql(path, q, hdr_map, body)
_looks_graphql(path, q, hdr_map, body) ==
    \/ Truthy(path) /\ Contains(Lower(path), <<"g", "r", "a", "p", "h", "q", "l">>)
    \/ Truthy(q) /\ Contains(Lower(q), <<"q", "u", "e", "r", "y", "=">>)
    \/ /\ Contains(Lower(DictGet(hdr_map, <<"c", "o", "n", "t", "e", "n", "t", "-", "t", "y", "p", "e">>, <<>>)),
                   <<"a", "p", "p", "l", "i", "c", "a", "t", "i", "o", "n", "/", "j", "s", "o", "n">>)
       /\ Truthy(body)
       /\ Contains(body, <<"\"", "q", "u", "e", "r", "y", "\"">>)

\* _persisted_hash(body)
_persisted_hash(body) ==
    LET idx == Find(body, <<"s", "h", "a", "2", "5", "6", "H", "a", "s", "h">>)
    IN  IF idx < 0 THEN None
        ELSE HashSearch(body, idx + 10,
                        IF idx + 90 < Len(body) THEN idx + 90 ELSE Len(body))

\* _gql_from_body(body)
_gql_from_body(body) ==
    IF Truthy(_extract_json_str(body, <<"o", "p", "e", "r", "a", "t", "i", "o", "n", "N", "a", "m", "e">>))
    THEN _extract_json_str(body, <<"o", "p", "e", "r", "a", "t", "i", "o", "n", "N", "a", "m", "e">>)
    ELSE IF /\ Truthy(_extract_json_str(body, <<"q", "u", "e", "r", "y">>))
            /\ GqlOpSearch(_extract_json_str(body, <<"q", "u", "e", "r", "y">>)) # None
    THEN GqlOpSearch(_extract_json_str(body, <<"q", "u", "e", "r", "y">>))
    ELSE IF Truthy(_persisted_hash(body))
    THEN <<"g", "q", "l", "-">> \o Take(_persisted_hash(body), 6)
    ELSE None

\* _gql_from_qs(q)
_gql_from_qs(q) ==
    IF Truthy(_qs_value(q, <<"q", "u", "e", "r", "y">>))
    THEN GqlOpSearch(_qs_value(q, <<"q", "u", "e", "r", "y">>))
    ELSE None

\* _gql_name(method, q, body)
_gql_name(method, q, body) ==
    LET op1 == IF Truthy(body) THEN _gql_from_body(body) ELSE None
        op  == IF ~Truthy(op1) /\ Truthy(q) THEN _gql_from_qs(q) ELSE op1
    IN  IF Truthy(op)
        THEN IF opt_method THEN method \o <<"-">> \o op ELSE op
        ELSE <<"g", "r", "a", "p", "h", "q", "l">>

\* the loop of _soap_name: `left` more searches from offset pos
RECURSIVE SoapScan(_, _, _)
SoapScan(body, pos, left) ==
    IF left = 0 \/ XmlSearch(body, pos) < 0
    THEN <<"S", "O", "A", "P", "-", "r", "e", "q", "u", "e", "s", "t">>
    ELSE LET i == XmlSearch(body, pos)
         IN  IF Lower(XmlTag(body, i)) \notin _SOAP_SKIP
             THEN <<"S", "O", "A", "P", "-">> \o XmlTag(body, i)
             ELSE SoapScan(body, XmlEnd(body, i), left - 1)

\* _soap_name(body)
_soap_name(body) == SoapScan(body, 0, 8)

\* s without one trailing newline: what `$` lets a pattern end before
BeforeEol(s) ==
    IF s # <<>> /\ s[Len(s)] = "\n" THEN Take(s, Len(s) - 1) ELSE s

\* _RE_DIGITS.match(s): ^\d+$
IsDigits(s) ==
    BeforeEol(s) # <<>> /\ \A i \in 1..Len(BeforeEol(s)) : s[i] \in DigitSet

\* _RE_UUID.match(s): ^[0-9a-fA-F]{8}-[0-9a-fA-F]{4}-
IsUuid(s) ==
    /\ Len(s) >= 14
    /\ \A i \in 1..8 : s[i] \in HexSet
    /\ s[9] = "-"
    /\ \A i \in 10..13 : s[i] \in HexSet
    /\ s[14] = "-"

\* _RE_HEX24.match(s): ^[0-9a-fA-F]{24,}$
IsHex24(s) ==
    /\ Len(BeforeEol(s)) >= 24
    /\ \A i \in 1..Len(BeforeEol(s)) : s[i] \in HexSet

\* _normalize_ids(path)
_normalize_ids(path) ==
    LET segs == Split(path, "/")
        out  == [i \in 1..Len(segs) |->
                    IF segs[i] = <<>> THEN segs[i]
                    ELSE IF IsDigits(segs[i]) \/ IsUuid(segs[i]) \/ IsHex24(segs[i])
                    THEN <<"{", "i", "d", "}">>
                    ELSE segs[i]]
    IN  Join(out, "/")

\* _auth_tag(hdr_map)
_auth_tag(hdr_map) ==
    LET val == DictGet(hdr_map, <<"a", "u", "t", "h", "o", "r", "i", "z", "a", "t", "i", "o", "n">>, <<>>)
        low == Lower(val)
    IN  IF val = <<>> THEN <<>>
        ELSE IF StartsWith(low, <<"b", "e", "a", "r", "e", "r", " ">>)
        THEN LET tok == Strip(Drop(val, 7))
             IN  IF Len(tok) >= 4
                 THEN <<"[", ".", ".">> \o LastChars(tok, 4) \o <<"]">>
                 ELSE <<"[", "b", "e", "a", "r", "e", "r", "]">>
        ELSE IF StartsWith(low, <<"b", "a", "s", "i", "c", " ">>)
        THEN LET raw == B64Decode(Strip(Drop(val, 6)))
             IN  IF raw = Raised THEN <<>>
                 ELSE LET user == Split(raw, ":")[1]
                      IN  <<"[">> \o (IF Len(user) > 8 THEN Take(user, 8) ELSE user)
                          \o <<"]">>
        ELSE <<>>

\* _rest_name(method, path, q, hdr_map)
_rest_name(method, path, q, hdr_map) ==
    LET override == DictGet(hdr_map, <<"x", "-", "h", "t", "t", "p", "-", "m", "e", "t", "h", "o", "d", "-", "o", "v", "e", "r", "r", "i", "d", "e">>, <<>>)
        method2  == IF override # <<>> THEN Upper(override) ELSE method
        path2    == IF opt_normid THEN _normalize_ids(_trim_path(path))
                    ELSE _trim_path(path)
        ct       == Lower(DictGet(hdr_map, <<"c", "o", "n", "t", "e", "n", "t", "-", "t", "y", "p", "e">>, <<>>))
    IN  (IF opt_method THEN method2 \o <<"-">> ELSE <<>>)
        \o (IF path2 # <<>> THEN path2 ELSE <<"/">>)
        \o (IF Contains(ct, <<"m", "u", "l", "t", "i", "p", "a", "r", "t", "/", "f", "o", "r", "m", "-", "d", "a", "t", "a">>)
            THEN <<"[", "m", "u", "l", "t", "i", "]">>
            ELSE IF Contains(ct, <<"x", "-", "w", "w", "w", "-", "f", "o", "r", "m", "-", "u", "r", "l", "e", "n", "c", "o", "d", "e", "d">>)
            THEN <<"[", "f", "o", "r", "m", "]">>
            ELSE <<>>)
        \o (IF opt_query /\ Truthy(q) THEN <<"?">> \o Take(q, 30) ELSE <<>>)
        \o (IF opt_auth THEN _auth_tag(hdr_map) ELSE <<>>)

-----------------------------------------------------------------------------
(* Name generation: the priority chain *)

\* a faulty variant of the chain: the GraphQL rule is tried before the
\* WebSocket rule
Branch_GraphQLFirst(r) ==
    LET pq      == _path_query(r)
        hdr_map == _header_map(r.hdrs)
        body    == _body(r.chunk)
    IN  IF _looks_graphql(pq[1], pq[2], hdr_map, body)
        THEN "GraphQL"
        ELSE IF Lower(DictGet(hdr_map, <<"u", "p", "g", "r", "a", "d", "e">>, <<>>))
                  = <<"w", "e", "b", "s", "o", "c", "k", "e", "t">>
        THEN "WebSocket"
        ELSE IF /\ Contains(Lower(DictGet(hdr_map, <<"c", "o", "n", "t", "e", "n", "t", "-", "t", "y", "p", "e">>, <<>>)),
                            <<"x", "m", "l">>)
                /\ Truthy(body)
        THEN "SOAP"
        ELSE "REST"

\* The branch of the priority chain of _name_for that returns
Branch(r) ==
    LET pq      == _path_query(r)
        hdr_map == _header_map(r.hdrs)
        body    == _body(r.chunk)
    IN  IF Lower(DictGet(hdr_map, <<"u", "p", "g", "r", "a", "d", "e">>, <<>>))
             = <<"w", "e", "b", "s", "o", "c", "k", "e", "t">>
        THEN "WebSocket"
        ELSE IF _looks_graphql(pq[1], pq[2], hdr_map, body)
        THEN "GraphQL"
        ELSE IF /\ Contains(Lower(DictGet(hdr_map, <<"c", "o", "n", "t", "e", "n", "t", "-", "t", "y", "p", "e">>, <<>>)),
                            <<"x", "m", "l">>)
                /\ Truthy(body)
        THEN "SOAP"
        ELSE "REST"

\* The label a branch hands to _cap
Synthesize(branch, r) ==
    LET method  == _method(r.hdrs)
        pq      == _path_query(r)
        hdr_map == _header_map(r.hdrs)
        body    == _body(r.chunk)
    IN  CASE branch = "WebSocket" -> <<"W", "S", "-">> \o _trim_path(pq[1])
          [] branch = "GraphQL"   -> _gql_name(method, pq[2], body)
          [] branch = "SOAP"      -> _soap_name(body)
          [] branch = "REST"      -> _rest_name(method, pq[1], pq[2], hdr_map)

\* The outcomes of self._name_for(svc, req)
_name_for(r) ==
    IF r.info = "raise" THEN {Raised}
    ELSE _cap(Synthesize(Branch(r), r))

-----------------------------------------------------------------------------
(* Requests given to _name_for *)

\* METHOD SP target SP version
StartLine(method, path, query) ==
    method \o <<" ">> \o path
    \o (IF query # None THEN <<"?">> \o query ELSE <<>>)
    \o <<" ", "H", "T", "T", "P", "/", "1", ".", "1">>

Line(x) == IF x = None THEN <<>> ELSE <<x>>

\* The request the host presents for the given parts
BuildRequest(p) ==
    [info  |-> p.info,
     hdrs  |-> <<StartLine(p.method, p.path, p.query)>>
               \o Line(p.upgrade) \o Line(p.ctype) \o Line(p.auth),
     url   |-> [path |-> p.path, query |-> p.query],
     chunk |-> p.body]

\* Upgrade header lines whose value equals "websocket" but for case
WsLines == {<<"U", "p", "g", "r", "a", "d", "e", ":", " ", "w", "e", "b", "s", "o", "c", "k", "e", "t">>,
            <<"U", "P", "G", "R", "A", "D", "E", ":", " ", " ", "W", "e", "b", "S", "o", "c", "k", "e", "t", " ">>}

UpgradeLines == WsLines \cup {None, <<"U", "p", "g", "r", "a", "d", "e", ":", " ", "w", "e", "b", "s", "o", "c", "k", "e", "t", "s">>}

\* Paths that contain "graphql" but for case
GqlPaths == {<<"/", "a", "p", "i", "/", "G", "r", "a", "p", "h", "Q", "L", "/", "v", "1", "/", "c", "h", "a", "n", "n", "e", "l">>}

LongSmartPath == <<"/">> \o Rep("a", 120) \o <<"/">> \o Rep("b", 90) \o <<"/", "c">>
LongPlainPath == <<"/">> \o Rep("a", 210)

Paths == GqlPaths \cup {<<"/">>, <<"/", "w", "s", "/", "c", "h", "a", "t", "/">>,
                        <<"/", "a", "p", "i", "/", "u", "s", "e", "r", "s", "/", "4", "2">>,
                        LongSmartPath, LongPlainPath}

\* Query strings that contain "query=" but for case
GqlQueries == {<<"i", "d", "=", "1", "&", "Q", "u", "e", "r", "y", "=", "q", "u", "e", "r", "y", "+", "G", "e", "t", "U", "s", "e", "r", "%", "7", "B", "i", "d", "%", "7", "D">>}

Queries == GqlQueries \cup {None, <<"i", "d", "=", "7">>}

\* Content-Type lines whose value contains "application/json" but for case
JsonLines == {<<"C", "o", "n", "t", "e", "n", "t", "-", "T", "y", "p", "e", ":", " ", "A", "p", "p", "l", "i", "c", "a", "t", "i", "o", "n", "/", "J", "S", "O", "N", ";", " ", "c", "h", "a", "r", "s", "e", "t", "=", "u", "t", "f", "-", "8">>}

\* Content-Type lines whose value contains "xml" but for case
XmlLines == {<<"c", "o", "n", "t", "e", "n", "t", "-", "t", "y", "p", "e", ":", " ", "t", "e", "x", "t", "/", "X", "M", "L">>}

CtypeLines == JsonLines \cup XmlLines \cup {None, <<"C", "o", "n", "t", "e", "n", "t", "-", "T", "y", "p", "e", ":", " ", "a", "p", "p", "l", "i", "c", "a", "t", "i", "o", "n", "/", "x", "-", "w", "w", "w", "-", "f", "o", "r", "m", "-", "u", "r", "l", "e", "n", "c", "o", "d", "e", "d">>}

\* Bodies that contain the quoted literal "query"
QueryBodies == {<<"{", "\"", "q", "u", "e", "r", "y", "\"", ":", "\"", "m", "u", "t", "a", "t", "i", "o", "n", " ", "A", "d", "d", "U", "s", "e", "r", "{", "a", "}", "\"", "}">>}

Bodies == QueryBodies \cup {<<>>, <<"<", "s", "o", "a", "p", "e", "n", "v", ":", "E", "n", "v", "e", "l", "o", "p", "e", ">", "<", "s", "o", "a", "p", "e", "n", "v", ":", "B", "o", "d", "y", ">", "<", "G", "e", "t", "B", "a", "l", "a", "n", "c", "e", ">">>}

AuthLines == {None, <<"A", "u", "t", "h", "o", "r", "i", "z", "a", "t", "i", "o", "n", ":", " ", "B", "e", "a", "r", "e", "r", " ", "a", "b", "c", "d", "1", "2", "3", "4", "e", "f", "g", "h">>}

RequestParts ==
    [info : {"full", "bare"}, method : {<<"P", "O", "S", "T">>},
     path : Paths, query : Queries, upgrade : UpgradeLines,
     ctype : CtypeLines, auth : AuthLines, body : Bodies]

\* Maximum lengths the name generator is run at: the least, the default, the
\* greatest, and one between
NameMaxLens == {10, 33, 60, 200}

InitName ==
    /\ DedupeFresh /\ CapIdle /\ SendIdle /\ ConcIdle
    /\ FlagsFresh /\ UiFresh
    /\ opt_maxlen \in NameMaxLens
    /\ reqParts \in RequestParts
    /\ req = BuildRequest(reqParts)
    /\ nameOut = None
    /\ shape = "none"

\* name = self._name_for(svc, req)
NameFor ==
    /\ nameOut = None
    /\ \E out \in _name_for(req) : nameOut' = out
    /\ shape' = Branch(req)
    /\ UNCHANGED <<reqParts, req, dedupeVars, optVars, uiVars, lastSync,
                   capVars, sendVars, concVars>>

NextName == NameFor

SpecName == InitName /\ [][NextName]_vars

\* The shape the rules of the classifier give the request, read off its parts
ExpectedShape ==
    IF reqParts.upgrade \in WsLines THEN "WebSocket"
    ELSE IF \/ reqParts.path \in GqlPaths
            \/ reqParts.query \in GqlQueries
            \/ (reqParts.ctype \in JsonLines /\ reqParts.body \in QueryBodies)
    THEN "GraphQL"
    ELSE IF reqParts.ctype \in XmlLines /\ reqParts.body # <<>>
    THEN "SOAP"
    ELSE "REST"

-----------------------------------------------------------------------------
(* The options and the settings tab *)

\* the digits of s as a number
RECURSIVE Decimal(_)
Decimal(s) ==
    IF s = <<>> THEN 0
    ELSE 10 * Decimal(SubSeq(s, 1, Len(s) - 1)) + DigitVal(s[Len(s)])

\* int(s) does not raise: an optional sign and at least one digit
IntParses(s) ==
    LET body == IF s # <<>> /\ Head(s) \in {"+", "-"} THEN Tail(s) ELSE s
    IN  body # <<>> /\ \A i \in 1..Len(body) : IsDigit(body[i])

\* int(s), where it does not raise
IntOf(s) ==
    IF Head(s) = "-" THEN 0 - Decimal(Tail(s))
    ELSE IF Head(s) = "+" THEN Decimal(Tail(s))
    ELSE Decimal(s)

\* JCheckBox.isSelected()
isSelected(box) == box = "selected"

\* JCheckBox(title, default)
JCheckBox(default) == IF default THEN "selected" ELSE "clear"

\* try: self._opt_x = self._ui_x.isSelected() / except Exception: pass
SyncFlag(opt, box) == IF box = "missing" THEN opt ELSE isSelected(box)

\* a faulty variant of the sync: the range test 10 <= v <= 200 is left out
SyncMaxLen_NoRange(opt, field) ==
    IF field = None THEN opt
    ELSE IF ~IntParses(Strip(field)) THEN opt
    ELSE IntOf(Strip(field))

\* try: v = int(self._ui_maxlen.getText().strip())
\*      if 10 <= v <= 200: self._opt_maxlen = v
\* except Exception: pass
SyncMaxLen(opt, field) ==
    IF field = None THEN opt
    ELSE IF ~IntParses(Strip(field)) THEN opt
    ELSE IF 10 <= IntOf(Strip(field)) /\ IntOf(Strip(field)) <= 200
         THEN IntOf(Strip(field))
         ELSE opt

_sync_options ==
    /\ opt_method' = SyncFlag(opt_method, ui_method)
    /\ opt_query'  = SyncFlag(opt_query, ui_query)
    /\ opt_normid' = SyncFlag(opt_normid, ui_normid)
    /\ opt_auth'   = SyncFlag(opt_auth, ui_auth)
    /\ opt_maxlen' = SyncMaxLen(opt_maxlen, ui_maxlen)
    /\ lastSync' = IF ui_maxlen = None THEN Raised ELSE ui_maxlen
    /\ UNCHANGED uiVars

\* _init_ui, run by the event thread some time after registration.  It builds
\* the widgets in the order of lines 362-374 from the current options; an
\* exception in a Swing call leaves the widgets built so far (built = 5: all).
_init_ui(built) ==
    /\ ui_method = "missing"
    /\ ui_method' = IF built >= 1 THEN JCheckBox(opt_method) ELSE ui_method
    /\ ui_query'  = IF built >= 2 THEN JCheckBox(opt_query) ELSE ui_query
    /\ ui_normid' = IF built >= 3 THEN JCheckBox(opt_normid) ELSE ui_normid
    /\ ui_auth'   = IF built >= 4 THEN JCheckBox(opt_auth) ELSE ui_auth
    /\ ui_maxlen' = IF built >= 5 THEN Str(opt_maxlen) ELSE ui_maxlen
    /\ UNCHANGED <<optVars, lastSync, dedupeVars, capVars, nameVars, sendVars, concVars>>

\* What the user types into the max-length field
FieldTexts ==
    {<<"6", "0">>, <<" ", "1", "0", " ">>, <<"2", "0", "0">>,
     <<"0", "1", "5">>, <<"+", "2", "5">>,
     <<"9">>, <<"2", "0", "1">>, <<"-", "5", "0">>,
     <<"1", "0", "0", "0", "0", "0">>,
     <<>>, <<"a", "b", "c">>, <<"1", "0", ".", "5">>, <<"1", " ", "0">>}

\* the user edits the max-length field
TypeMaxLen(text) ==
    /\ ui_maxlen # None
    /\ ui_maxlen' = text
    /\ UNCHANGED <<ui_method, ui_query, ui_normid, ui_auth,
                   optVars, lastSync, dedupeVars, capVars, nameVars, sendVars, concVars>>

Toggle(box) == IF box = "selected" THEN "clear" ELSE "selected"

\* the user clicks a checkbox
ClickMethod ==
    /\ ui_method # "missing"
    /\ ui_method' = Toggle(ui_method)
    /\ UNCHANGED <<ui_query, ui_normid, ui_auth, ui_maxlen,
                   optVars, lastSync, dedupeVars, capVars, nameVars, sendVars, concVars>>

ClickQuery ==
    /\ ui_query # "missing"
    /\ ui_query' = Toggle(ui_query)
    /\ UNCHANGED <<ui_method, ui_normid, ui_auth, ui_maxlen,
                   optVars, lastSync, dedupeVars, capVars, nameVars, sendVars, concVars>>

ClickNormid ==
    /\ ui_normid # "missing"
    /\ ui_normid' = Toggle(ui_normid)
    /\ UNCHANGED <<ui_method, ui_query, ui_auth, ui_maxlen,
                   optVars, lastSync, dedupeVars, capVars, nameVars, sendVars, concVars>>

ClickAuth ==
    /\ ui_auth # "missing"
    /\ ui_auth' = Toggle(ui_auth)
    /\ UNCHANGED <<ui_method, ui_query, ui_normid, ui_maxlen,
                   optVars, lastSync, dedupeVars, capVars, nameVars, sendVars, concVars>>

InitOptions ==
    DedupeFresh /\ OptFresh /\ CapIdle /\ NameIdle /\ SendIdle /\ ConcIdle

NextOptions ==
    \/ _sync_options /\ UNCHANGED <<dedupeVars, capVars, nameVars, sendVars, concVars>>
    \/ \E built \in 0..5 : _init_ui(built)
    \/ \E text \in FieldTexts : TypeMaxLen(text)
    \/ ClickMethod
    \/ ClickQuery
    \/ ClickNormid
    \/ ClickAuth

SpecOptions == InitOptions /\ [][NextOptions]_vars

-----------------------------------------------------------------------------
(* The send action *)

\* msg.getRequest() gave None
NullReq == [info |-> "null", hdrs |-> <<>>,
            url |-> [path |-> <<>>, query |-> None], chunk |-> <<>>]

\* a request the host fails to analyze
RaiseReq == [info |-> "raise", hdrs |-> <<>>,
             url |-> [path |-> <<>>, query |-> None], chunk |-> <<>>]

RestReq ==
    BuildRequest([info |-> "full", method |-> <<"G", "E", "T">>, path |-> <<"/", "a", "p", "i", "/", "u", "s", "e", "r", "s", "/", "4", "2">>,
                  query |-> None, upgrade |-> None, ctype |-> None,
                  auth |-> None, body |-> <<>>])

\* its label is longer than any maximum and has no usable last segment
WsLongReq ==
    BuildRequest([info |-> "full", method |-> <<"G", "E", "T">>, path |-> LongPlainPath,
                  query |-> None, upgrade |-> <<"U", "p", "g", "r", "a", "d", "e", ":", " ", "w", "e", "b", "s", "o", "c", "k", "e", "t">>, ctype |-> None,
                  auth |-> None, body |-> <<>>])

Service == <<"https", "example.test", "443">>

\* ctx.getSelectedMessages()
Messages == [request : {NullReq, RaiseReq, RestReq, WsLongReq},
             service : {None, Service}]

MaxSelected == 2

Selections == UNION {[1..n -> Messages] : n \in 1..MaxSelected}

FallbackLabel == <<"r", "e", "q", "u", "e", "s", "t">>

\* The settings tab is either not built yet or shows the defaults with the
\* maximum edited to 10
InitSend ==
    /\ DedupeFresh /\ CapIdle /\ NameIdle /\ SendIdle /\ ConcIdle
    /\ FlagsFresh
    /\ opt_maxlen = 60
    /\ lastSync = None
    /\ \/ UiFresh
       \/ /\ ui_method = JCheckBox(TRUE)
          /\ ui_query = JCheckBox(FALSE)
          /\ ui_normid = JCheckBox(TRUE)
          /\ ui_auth = JCheckBox(TRUE)
          /\ ui_maxlen = <<"1", "0">>

\* _on_send up to the loop: self._sync_options(), then the selected messages
\* are taken
_on_send(msgs) ==
    /\ selected = <<>>
    /\ _sync_options
    /\ selected' = msgs
    /\ pending' = msgs
    /\ UNCHANGED <<repeater, sendLog, escaped, dedupeVars, capVars, nameVars,
                   concVars>>

Tab(msg, label) == [request |-> msg.request, service |-> msg.service, label |-> label]

\* self._send_fallback(svc, req): an exception of the send is passed over
_send_fallback(tabs, msg, fbOk) ==
    IF fbOk THEN Append(tabs, Tab(msg, FallbackLabel)) ELSE tabs

Skips(msg) == msg.request = NullReq \/ msg.service = None

\* One turn of the loop for a message without request or service: continue
SkipNext ==
    /\ pending # <<>>
    /\ Skips(Head(pending))
    /\ pending' = Tail(pending)
    /\ sendLog' = Append(sendLog, [msg |-> Head(pending), raised |-> FALSE,
                                   labels |-> {}])
    /\ UNCHANGED <<selected, repeater, escaped, dedupeVars, optVars, uiVars,
                   lastSync, capVars, nameVars, concVars>>

\* One turn of the loop for the next selected message.  nm is the outcome of
\* _name_for; sendOk, outOk, errOk, fbOk tell whether the host's
\* sendToRepeater (labelled), printOutput, printError and sendToRepeater
\* (fallback) return rather than raise.
Turn(nm, sendOk, outOk, errOk, fbOk) ==
    LET msg     == Head(pending)
        label   == DedupeFormat(nm, DedupeCount(counts, nm))
        named   == nm # Raised
        sent    == named /\ sendOk
        raised  == ~named \/ ~sendOk \/ ~outOk
        tabs1   == IF sent THEN Append(repeater, Tab(msg, label)) ELSE repeater
        tabs2   == IF raised /\ errOk THEN _send_fallback(tabs1, msg, fbOk)
                   ELSE tabs1
        leaves  == raised /\ ~errOk
    IN  /\ counts' = IF named THEN DedupeStore(counts, nm) ELSE counts
        /\ repeater' = tabs2
        /\ escaped' = leaves
        /\ pending' = IF leaves THEN <<>> ELSE Tail(pending)
        /\ sendLog' = Append(sendLog,
               [msg |-> msg, raised |-> raised,
                labels |-> {tabs2[i].label :
                              i \in Len(repeater) + 1 .. Len(tabs2)}])
        /\ UNCHANGED <<selected, hist, dropped, optVars, uiVars, lastSync,
                       capVars, nameVars, concVars>>

ProcessNext ==
    /\ pending # <<>>
    /\ ~Skips(Head(pending))
    /\ \E nm \in _name_for(Head(pending).request) :
       \E sendOk \in BOOLEAN, outOk \in BOOLEAN, errOk \in BOOLEAN, fbOk \in BOOLEAN :
           Turn(nm, sendOk, outOk, errOk, fbOk)

NextSend ==
    \/ \E msgs \in Selections : _on_send(msgs)
    \/ SkipNext
    \/ ProcessNext

SpecSend == InitSend /\ [][NextSend]_vars

\* the send action has returned (or was left by an exception)
SendDone == selected # <<>> /\ pending = <<>>

\* C5: for every selected message with a request and a service, if name
\* generation, dedupe, the labelled send or a logging step raises, the request
\* is still submitted under the label "request"; no such message is dropped
\* without a tab; and a failure on one message does not keep the remaining
\* selected messages from being processed.
C5_FallbackOnFailure ==
    /\ \A i \in DOMAIN sendLog :
          (sendLog[i].msg.request # NullReq /\ sendLog[i].msg.service # None) =>
              /\ sendLog[i].raised => FallbackLabel \in sendLog[i].labels
              /\ sendLog[i].labels # {}
    /\ SendDone => Len(sendLog) = Len(selected)

\* Field texts that are no integer in 10..200
RejectedTexts ==
    {<<"9">>, <<"2", "0", "1">>, <<"-", "5", "0">>,
     <<"1", "0", "0", "0", "0", "0">>,
     <<>>, <<"a", "b", "c">>, <<"1", "0", ".", "5">>, <<"1", " ", "0">>}

\* What a _sync_options step must do: leave the maximum alone when the field
\* is missing or holds a rejected text, and copy every checkbox that exists.
\* (The steps that leave the widgets alone are the _sync_options steps.)
SyncFrame ==
    (uiVars' = uiVars) =>
        /\ (ui_maxlen \in RejectedTexts \cup {None}) => opt_maxlen' = opt_maxlen
        /\ ui_method # "missing" => opt_method' = (ui_method = "selected")
        /\ ui_query  # "missing" => opt_query'  = (ui_query = "selected")
        /\ ui_normid # "missing" => opt_normid' = (ui_normid = "selected")
        /\ ui_auth   # "missing" => opt_auth'   = (ui_auth = "selected")

\* C10: the effective maximum starts at 60 and is always an integer in
\* 10..200; an option sync that finds the field missing, non-numeric or out
\* of range leaves the maximum as it was, and still syncs the other options.
C10_MaxLenInRange ==
    /\ opt_maxlen = 60
    /\ [](opt_maxlen \in 10..200)
    /\ [][SyncFrame]_vars

\* the maximum was set to 10, then a sync read "201" (or another rejected
\* text) and kept 10, while a checkbox changed by the user was still synced
C10_Witness ==
    /\ lastSync \in RejectedTexts
    /\ opt_maxlen = 10
    /\ opt_query = TRUE
    /\ ui_query = "selected"

=============================================================================
